---- MODULE Spec2Model ----
(***************************************************************************)
(* Model of 3rd_party/SimplePipeLine.py: a ParaView Catalyst co-processing *)
(* script.  The script is a module body (lines 13-115) executed once at    *)
(* import, and two callbacks (RequestDataDescription, DoCoProcessing) the  *)
(* host adaptor invokes with a data description.                           *)
(*                                                                         *)
(* The state is what the script can observe or change: the module global   *)
(* `coprocessor`, the CoProcessor objects constructed so far with the      *)
(* fields the script sets through the host API, and the trace `log` of     *)
(* every call that crosses the script/host boundary, in program order.     *)
(* A host call may raise; the script has no try/except, so the statement   *)
(* list of a handler is executed up to the first raising call.             *)
(***************************************************************************)
EXTENDS Integers, Sequences, FiniteSets, TLC

VARIABLES pc, coprocessor, heap, nobj, transfer, log, calls

vars == <<pc, coprocessor, heap, nobj, transfer, log, calls>>

\* ------------------------------------------------------------------ bounds
\* number of callback invocations explored
MaxCalls == 2
\* largest GetNumberOfInputDescriptions() of a data description
MaxInputs == 2
\* largest GetTimeStep() of a data description
MaxTime == 1

\* ------------------------------------------------------- program constants
ViewFreq == 1
WriterFreq == 1
LiveFreq == 1
LivePort == 22222
ViewWidth == 1546
ViewHeight == 836

ViewFilename == "image_%t.png"
WriterFilename == "filename_%t.pvtu"
LiveHost == "localhost"
InputName == "input"
freqs == << <<InputName, <<1, 1>> >> >>

\* ------------------------------------------------------------ data shapes
\* a data description handed to a callback by the host
DataDescriptions ==
  [t : 0..MaxTime, force : BOOLEAN, n : 0..MaxInputs]

\* one call crossing the script/host boundary
Ev(call, op, self, t, args, ret, raised) ==
  [call |-> call, op |-> op, self |-> self, t |-> t,
   args |-> args, ret |-> ret, raised |-> raised]

\* a freshly constructed coprocessing.CoProcessor: no pipeline yet
NewCoProcessor ==
  [PipelineCreated |-> FALSE, Pipeline |-> 0, Frequencies |-> <<>>,
   Live |-> <<>>, Views |-> <<>>, Writers |-> <<>>, Producers |-> <<>>]

NoEnv == [renderView1 |-> 0, visnek3d |-> 0, writer |-> 0,
          pressureLUT |-> 0, pressurePWF |-> 0, display |-> 0]

Stmt(op, i) == [op |-> op, i |-> i]

\* ------------------------------------------------------- statement lists
\* variant: live visualization is never enabled
EnableLiveSkipped ==
  << >>

\* module level, after the global is bound (line 115)
EnableLiveStmts ==
  << Stmt("EnableLiveVisualization", 0) >>

\* variant: the view is registered only after the producer exists
CreatePipelineViewLate ==
  << Stmt("CreatePipeline", 0),
     Stmt("_DisableFirstRenderCameraReset", 0),
     Stmt("CreateView", 0),
     Stmt("CreateProducer", 0),
     Stmt("RegisterView", 0),
     Stmt("XMLPUnstructuredGridWriter", 0),
     Stmt("RegisterWriter", 0),
     Stmt("GetColorTransferFunction", 0),
     Stmt("GetOpacityTransferFunction", 0),
     Stmt("Show", 0),
     Stmt("SetScalarBarVisibility", 0),
     Stmt("GetScalarBar", 0),
     Stmt("Pipeline", 0) >>

\* the class body of Pipeline inside _CreatePipeline, entered through the
\* CoProcessor.CreatePipeline override and left with `return Pipeline()`
CreatePipelineStmts ==
  << Stmt("CreatePipeline", 0),
     Stmt("_DisableFirstRenderCameraReset", 0),
     Stmt("CreateView", 0),
     Stmt("RegisterView", 0),
     Stmt("CreateProducer", 0),
     Stmt("XMLPUnstructuredGridWriter", 0),
     Stmt("RegisterWriter", 0),
     Stmt("GetColorTransferFunction", 0),
     Stmt("GetOpacityTransferFunction", 0),
     Stmt("Show", 0),
     Stmt("SetScalarBarVisibility", 0),
     Stmt("GetScalarBar", 0),
     Stmt("Pipeline", 0) >>

\* variant: the pipeline is built together with the coprocessor
CreateCoProcessorEager ==
  << Stmt("CoProcessor", 0), Stmt("SetUpdateFrequencies", 0) >>
  \o CreatePipelineStmts

\* CreateCoProcessor(): construct, set the update frequencies (lines 100-103)
CreateCoProcessorStmts ==
  << Stmt("CoProcessor", 0), Stmt("SetUpdateFrequencies", 0) >>

\* the loop body of RequestDataDescription for input description i
RequestAll(i) ==
  << Stmt("AllFieldsOn", i), Stmt("GenerateMeshOn", i) >>

RECURSIVE RequestAllUpTo(_)
RequestAllUpTo(n) ==
  IF n = 0 THEN << >> ELSE RequestAllUpTo(n - 1) \o RequestAll(n - 1)

\* variant: the force-output branch lacks its `return`
RequestDataDescriptionNoReturn(dd) ==
  IF dd.force = TRUE
    THEN RequestAllUpTo(dd.n) \o << Stmt("LoadRequestedData", 0) >>
    ELSE << Stmt("LoadRequestedData", 0) >>

\* variant: GetForceOutput() is not consulted
RequestDataDescriptionIgnoresForce(dd) ==
  RequestAllUpTo(dd.n)

\* variant: the callback builds a coprocessor of its own first
RequestDataDescriptionRebinds(dd) ==
  << Stmt("CoProcessor", 0), Stmt("SetUpdateFrequencies", 0) >>
  \o (IF dd.force = TRUE
        THEN RequestAllUpTo(dd.n)
        ELSE << Stmt("LoadRequestedData", 0) >>)

\* RequestDataDescription(datadescription)
RequestDataDescriptionStmts(dd) ==
  IF dd.force = TRUE
    THEN RequestAllUpTo(dd.n)
    ELSE << Stmt("LoadRequestedData", 0) >>

\* variant: the images are written before the data
DoCoProcessingImagesFirst ==
  << Stmt("UpdateProducers", 0),
     Stmt("WriteImages", 0),
     Stmt("WriteData", 0),
     Stmt("DoLiveVisualization", 0) >>

\* DoCoProcessing(datadescription)
DoCoProcessingStmts ==
  << Stmt("UpdateProducers", 0),
     Stmt("WriteData", 0),
     Stmt("WriteImages", 0),
     Stmt("DoLiveVisualization", 0) >>

\* the host's UpdateProducers sets the pipeline up when it has not been
\* set up yet: the call is followed by the script's CreatePipeline
UpdateProducers(created) ==
  IF created THEN << >> ELSE CreatePipelineStmts

RECURSIVE Expand(_, _)
Expand(stmts, created) ==
  IF stmts = << >> THEN << >>
  ELSE << Head(stmts) >>
       \o (IF Head(stmts).op = "UpdateProducers"
             THEN UpdateProducers(created) ELSE << >>)
       \o Expand(Tail(stmts), created)

\* entering CreatePipeline and instantiating Pipeline are statements of the
\* script, not calls into the host: they cannot raise on their own
CanRaise(st) == st.op \notin {"CreatePipeline", "Pipeline"}

\* ------------------------------------------------------ one statement
\* arguments the script passes
ArgsOf(S, st) ==
  CASE st.op = "SetUpdateFrequencies" -> << freqs >>
    [] st.op = "EnableLiveVisualization" -> << TRUE, LiveFreq >>
    [] st.op \in {"AllFieldsOn", "GenerateMeshOn"} -> << st.i >>
    [] st.op = "WriteImages" -> << FALSE >>
    [] st.op = "DoLiveVisualization" -> << LiveHost, LivePort >>
    [] st.op = "CreateView" -> << "RenderView" >>
    [] st.op = "RegisterView" ->
         << S.env.renderView1, ViewFilename, ViewFreq, 1, 1,
            ViewWidth, ViewHeight >>
    [] st.op = "CreateProducer" -> << InputName >>
    [] st.op = "XMLPUnstructuredGridWriter" -> << S.env.visnek3d >>
    [] st.op = "RegisterWriter" ->
         << S.env.writer, WriterFilename, WriterFreq >>
    [] st.op \in {"GetColorTransferFunction", "GetOpacityTransferFunction"} ->
         << "pressure" >>
    [] st.op = "Show" -> << S.env.visnek3d, S.env.renderView1 >>
    [] st.op = "SetScalarBarVisibility" -> << S.env.renderView1, TRUE >>
    [] st.op = "GetScalarBar" -> << S.env.pressureLUT, S.env.renderView1 >>
    [] OTHER -> << >>

\* the object a completed call returns (0: nothing of interest)
RetOf(S, st) ==
  CASE st.op = "CoProcessor" -> Len(S.heap) + 1
    [] st.op \in {"CreateView", "CreateProducer", "XMLPUnstructuredGridWriter",
                  "Show", "GetScalarBar", "Pipeline"} -> S.nobj + 1
    [] st.op = "GetColorTransferFunction" ->
         IF S.transfer.lut = 0 THEN S.nobj + 1 ELSE S.transfer.lut
    [] st.op = "GetOpacityTransferFunction" ->
         IF S.transfer.pwf = 0 THEN S.nobj + 1 ELSE S.transfer.pwf
    [] OTHER -> 0

\* the receiver: the coprocessor for its methods, 0 for everything else
SelfOf(S, st) ==
  IF st.op \in {"SetUpdateFrequencies", "EnableLiveVisualization",
                "LoadRequestedData", "UpdateProducers", "WriteData",
                "WriteImages", "DoLiveVisualization", "CreatePipeline",
                "RegisterView", "CreateProducer", "RegisterWriter", "Pipeline"}
    THEN S.self ELSE 0

\* the state after the statement completed normally
Effect(S, st) ==
  LET r == RetOf(S, st)
      me == S.self
      fresh == [S EXCEPT !.nobj = IF r > @ THEN r ELSE @]
  IN CASE st.op = "CoProcessor" ->
            [S EXCEPT !.heap = Append(@, NewCoProcessor), !.self = r]
       [] st.op = "SetUpdateFrequencies" ->
            [S EXCEPT !.heap[me].Frequencies = freqs]
       [] st.op = "EnableLiveVisualization" ->
            [S EXCEPT !.heap[me].Live = << TRUE, LiveFreq >>]
       [] st.op = "AllFieldsOn" ->
            [S EXCEPT !.fields = @ \cup {st.i}]
       [] st.op = "GenerateMeshOn" ->
            [S EXCEPT !.mesh = @ \cup {st.i}]
       [] st.op = "CreateView" ->
            [fresh EXCEPT !.env.renderView1 = r]
       [] st.op = "RegisterView" ->
            [S EXCEPT !.heap[me].Views =
               Append(@, << S.env.renderView1, ViewFilename, ViewFreq >>)]
       [] st.op = "CreateProducer" ->
            [fresh EXCEPT !.env.visnek3d = r,
                          !.heap[me].Producers = Append(@, << r, InputName >>)]
       [] st.op = "XMLPUnstructuredGridWriter" ->
            [fresh EXCEPT !.env.writer = r]
       [] st.op = "RegisterWriter" ->
            [S EXCEPT !.heap[me].Writers =
               Append(@, << S.env.writer, WriterFilename, WriterFreq >>)]
       [] st.op = "GetColorTransferFunction" ->
            [fresh EXCEPT !.env.pressureLUT = r, !.transfer.lut = r]
       [] st.op = "GetOpacityTransferFunction" ->
            [fresh EXCEPT !.env.pressurePWF = r, !.transfer.pwf = r]
       [] st.op = "Show" ->
            [fresh EXCEPT !.env.display = r]
       [] st.op = "GetScalarBar" -> fresh
       [] st.op = "Pipeline" ->
            [fresh EXCEPT !.heap[me].Pipeline = r,
                          !.heap[me].PipelineCreated = TRUE]
       [] OTHER -> S

\* the call is made; it completes (ok) or raises
Do(S, st, ok) ==
  LET e == Ev(S.call, st.op, SelfOf(S, st), S.t, ArgsOf(S, st),
              IF ok THEN RetOf(S, st) ELSE 0, ~ok)
      T == [S EXCEPT !.log = Append(@, e)]
  IN IF ok THEN Effect(T, st) ELSE [T EXCEPT !.exc = st.op]

\* variant: a raising call is caught and the handler carries on
RECURSIVE RunSwallowing(_, _, _, _)
RunSwallowing(S, stmts, i, failAt) ==
  IF i > Len(stmts) THEN S
  ELSE RunSwallowing(Do(S, stmts[i], i # failAt), stmts, i + 1, failAt)

\* a handler without try/except: statements in order up to the one that
\* raises (failAt = 0: none raises)
RECURSIVE Run(_, _, _, _)
Run(S, stmts, i, failAt) ==
  IF i > Len(stmts) THEN S
  ELSE IF i = failAt THEN Do(S, stmts[i], FALSE)
  ELSE Run(Do(S, stmts[i], TRUE), stmts, i + 1, failAt)

FailPoints(stmts) ==
  {0} \cup {i \in 1..Len(stmts) : CanRaise(stmts[i])}

\* the execution context of a handler: call number, the binding of the
\* name `coprocessor`, the timestep of the data description
Ctx(call, self, t) ==
  [call |-> call, self |-> self, t |-> t, heap |-> heap, nobj |-> nobj,
   transfer |-> transfer, log |-> log, env |-> NoEnv,
   fields |-> {}, mesh |-> {}, exc |-> "none"]

NoTime == -1

\* GetNumberOfInputDescriptions() is asked only on the force-output path
NotAsked == -1
NumberAsked(dd) == IF dd.force = TRUE THEN dd.n ELSE NotAsked

\* simulation time does not run backwards: the timestep of a callback is
\* at least that of the callback before it
TimeSteps ==
  IF calls = << >> THEN 0..MaxTime ELSE calls[Len(calls)].t..MaxTime

\* --------------------------------------------------------------- actions
Init ==
  /\ pc = "start"
  /\ coprocessor = 0
  /\ heap = << >>
  /\ nobj = 0
  /\ transfer = [lut |-> 0, pwf |-> 0]
  /\ log = << >>
  /\ calls = << >>

\* line 111: coprocessor = CreateCoProcessor()
LoadCreateCoProcessor ==
  /\ pc = "start"
  /\ \E failAt \in FailPoints(CreateCoProcessorStmts) :
       LET R == Run(Ctx(0, 0, NoTime), CreateCoProcessorStmts, 1, failAt)
       IN /\ pc' = IF R.exc = "none" THEN "created" ELSE "failed"
          /\ coprocessor' = IF R.exc = "none" THEN R.self ELSE 0
          /\ heap' = R.heap
          /\ nobj' = R.nobj
          /\ transfer' = R.transfer
          /\ log' = R.log
  /\ UNCHANGED calls

\* line 115: coprocessor.EnableLiveVisualization(True, 1); the two callbacks
\* are defined by the statements that follow
LoadEnableLive ==
  /\ pc = "created"
  /\ \E failAt \in FailPoints(EnableLiveStmts) :
       LET R == Run(Ctx(0, coprocessor, NoTime), EnableLiveStmts, 1, failAt)
       IN /\ pc' = IF R.exc = "none" THEN "loaded" ELSE "failed"
          /\ coprocessor' = R.self
          /\ heap' = R.heap
          /\ nobj' = R.nobj
          /\ transfer' = R.transfer
          /\ log' = R.log
  /\ UNCHANGED calls

\* the host calls RequestDataDescription(datadescription)
RequestDataDescription ==
  /\ pc = "loaded"
  /\ Len(calls) < MaxCalls
  /\ \E dd \in {d \in DataDescriptions : d.t \in TimeSteps} :
       LET stmts == RequestDataDescriptionStmts(dd)
       IN \E failAt \in FailPoints(stmts) :
            LET R == Run(Ctx(Len(calls) + 1, coprocessor, dd.t),
                         stmts, 1, failAt)
            IN /\ coprocessor' = R.self
               /\ heap' = R.heap
               /\ nobj' = R.nobj
               /\ transfer' = R.transfer
               /\ log' = R.log
               /\ calls' = Append(calls,
                    [fn |-> "RequestDataDescription", t |-> dd.t,
                     force |-> dd.force, n |-> NumberAsked(dd),
                     exc |-> R.exc, fields |-> R.fields, mesh |-> R.mesh])
  /\ UNCHANGED pc

\* the host calls DoCoProcessing(datadescription); the callback reads
\* nothing of the data description, only hands it on
DoCoProcessing ==
  /\ pc = "loaded"
  /\ Len(calls) < MaxCalls
  /\ \E t \in TimeSteps :
       LET stmts == Expand(DoCoProcessingStmts,
                           heap[coprocessor].PipelineCreated)
       IN \E failAt \in FailPoints(stmts) :
            LET R == Run(Ctx(Len(calls) + 1, coprocessor, t),
                         stmts, 1, failAt)
            IN /\ coprocessor' = R.self
               /\ heap' = R.heap
               /\ nobj' = R.nobj
               /\ transfer' = R.transfer
               /\ log' = R.log
               /\ calls' = Append(calls,
                    [fn |-> "DoCoProcessing", t |-> t, exc |-> R.exc])
  /\ UNCHANGED pc

Next ==
  \/ LoadCreateCoProcessor
  \/ LoadEnableLive
  \/ RequestDataDescription
  \/ DoCoProcessing

Spec == Init /\ [][Next]_vars

TypeOK ==
  /\ pc \in {"start", "created", "loaded", "failed"}
  /\ coprocessor \in 0..Len(heap)
  /\ Len(calls) <= MaxCalls

\* ------------------------------------------------ reading the call trace
\* the boundary calls made during callback k, in order
CallEvents(k) == SelectSeq(log, LAMBDA e : e.call = k)

\* the calls DoCoProcessing makes itself (not those of the pipeline set-up
\* nested in UpdateProducers)
CoOps == {"UpdateProducers", "WriteData", "WriteImages", "DoLiveVisualization"}
TopEvents(k) == SelectSeq(log, LAMBDA e : e.call = k /\ e.op \in CoOps)

OpsOf(evs) == [i \in 1..Len(evs) |-> evs[i].op]

Count(evs, op) == Cardinality({i \in 1..Len(evs) : evs[i].op = op})

\* positions in the trace of the calls named op
Where(op) == {i \in 1..Len(log) : log[i].op = op}

IsPrefix(a, b) == Len(a) <= Len(b) /\ \A i \in 1..Len(a) : a[i] = b[i]

DoCoCalls == {k \in 1..Len(calls) : calls[k].fn = "DoCoProcessing"}
RequestCalls == {k \in 1..Len(calls) : calls[k].fn = "RequestDataDescription"}

FourOps == << "UpdateProducers", "WriteData", "WriteImages", "DoLiveVisualization" >>

\* ------------------------------------------------------------------- C1
\* C1: a DoCoProcessing call that returns makes exactly the calls
\* UpdateProducers, WriteData, WriteImages(rescale_lookuptable=False),
\* DoLiveVisualization("localhost", 22222), once each, in this order, on the
\* coprocessor and for the call's timestep (a call cut short by a raising
\* host call has made a prefix of them); and in the whole trace every
\* WriteData, WriteImages and DoLiveVisualization of a timestep comes after
\* an UpdateProducers of that timestep.
C1_FixedOrder ==
  /\ \A k \in DoCoCalls :
       LET top == TopEvents(k)
       IN /\ IsPrefix(OpsOf(top), FourOps)
          /\ \A i \in 1..Len(top) :
               top[i].t = calls[k].t /\ top[i].self = coprocessor
          /\ calls[k].exc = "none" =>
               /\ Len(top) = 4
               /\ top[3].args = << FALSE >>
               /\ top[4].args[1] = "localhost"
               /\ top[4].args[2] = 22222
  /\ \A i \in 1..Len(log) :
       log[i].op \in {"WriteData", "WriteImages", "DoLiveVisualization"} =>
         \E j \in 1..(i - 1) :
           log[j].op = "UpdateProducers" /\ log[j].t = log[i].t

\* two DoCoProcessing calls have returned, for two different timesteps
C1_Witness ==
  \E k1, k2 \in DoCoCalls :
    /\ k1 < k2
    /\ calls[k1].exc = "none" /\ calls[k2].exc = "none"
    /\ calls[k1].t # calls[k2].t

\* ------------------------------------------------------------------- C2
\* C2: a RequestDataDescription call with GetForceOutput() true never calls
\* LoadRequestedData and touches no input description twice; when it
\* returns it has called AllFieldsOn and GenerateMeshOn exactly once on each
\* input description 0 .. n-1, AllFieldsOn before GenerateMeshOn, in index
\* order, and nothing else: with n = 0 it has made no call at all.
C2_ForceOutput ==
  \A k \in RequestCalls :
    calls[k].force =>
      LET evs == CallEvents(k)
          n == calls[k].n
      IN /\ Count(evs, "LoadRequestedData") = 0
         /\ \A i, j \in 1..Len(evs) :
              (evs[i].op = evs[j].op /\ evs[i].args = evs[j].args) => i = j
         /\ calls[k].exc = "none" =>
              /\ Len(evs) = 2 * n
              /\ \A i \in 0..(n - 1) :
                   /\ evs[2 * i + 1].op = "AllFieldsOn"
                   /\ evs[2 * i + 1].args = << i >>
                   /\ evs[2 * i + 2].op = "GenerateMeshOn"
                   /\ evs[2 * i + 2].args = << i >>
              /\ calls[k].fields = 0..(n - 1)
              /\ calls[k].mesh = 0..(n - 1)

\* a forced request over the largest data description has returned, and so
\* has one over a data description without inputs
C2_Witness ==
  /\ \E k \in RequestCalls :
       calls[k].force /\ calls[k].exc = "none" /\ calls[k].n = MaxInputs
  /\ \E k \in RequestCalls :
       calls[k].force /\ calls[k].exc = "none" /\ calls[k].n = 0

\* ------------------------------------------------------------------- C3
\* C3: a RequestDataDescription call with GetForceOutput() not true calls
\* coprocessor.LoadRequestedData exactly once and nothing else (no
\* AllFieldsOn, no GenerateMeshOn); and no call at all, forced or not, makes
\* both a LoadRequestedData call and an AllFieldsOn or GenerateMeshOn call.
C3_PipelineDriven ==
  /\ \A k \in RequestCalls :
       ~calls[k].force =>
         LET evs == CallEvents(k)
         IN /\ Len(evs) = 1
            /\ evs[1].op = "LoadRequestedData"
            /\ evs[1].self = coprocessor
            /\ evs[1].t = calls[k].t
            /\ calls[k].fields = {} /\ calls[k].mesh = {}
  /\ \A k \in RequestCalls :
       LET evs == CallEvents(k)
       IN ~ /\ Count(evs, "LoadRequestedData") > 0
            /\ Count(evs, "AllFieldsOn") + Count(evs, "GenerateMeshOn") > 0

\* a pipeline-driven request and a forced request with inputs both happened
C3_Witness ==
  /\ \E k \in RequestCalls : ~calls[k].force /\ calls[k].exc = "none"
  /\ \E k \in RequestCalls :
       calls[k].force /\ calls[k].n > 0 /\ calls[k].exc = "none"

\* ------------------------------------------------------------------- C4
\* C4: loading the module creates no pipeline; CreatePipeline is entered
\* only from an UpdateProducers call of DoCoProcessing; the first
\* DoCoProcessing call whose UpdateProducers returns has created it; it is
\* created at most once over the whole run; and its creation precedes every
\* WriteData and WriteImages.
LoadEvents == CallEvents(0)

PipelineOps ==
  {"CreatePipeline", "CreateView", "RegisterView", "CreateProducer",
   "XMLPUnstructuredGridWriter", "RegisterWriter", "Pipeline"}

\* UpdateProducers of call k returned: the call went on to WriteData
Updated(k) == Count(TopEvents(k), "WriteData") > 0

C4_LazyPipeline ==
  /\ \A i \in 1..Len(log) : log[i].call = 0 => log[i].op \notin PipelineOps
  /\ (DoCoCalls = {} /\ coprocessor # 0) =>
       /\ ~heap[coprocessor].PipelineCreated
       /\ heap[coprocessor].Pipeline = 0
       /\ heap[coprocessor].Views = << >>
       /\ heap[coprocessor].Writers = << >>
  /\ \A i \in Where("CreatePipeline") :
       /\ i > 1
       /\ log[i - 1].op = "UpdateProducers"
       /\ log[i - 1].call = log[i].call
       /\ log[i].call \in DoCoCalls
  /\ Cardinality(Where("Pipeline")) <= 1
  /\ \A k \in DoCoCalls :
       Updated(k) =>
         \E p \in Where("Pipeline") :
           /\ log[p].call <= k
           /\ \A j \in DoCoCalls : (j < log[p].call) => ~Updated(j)
  /\ \A i \in Where("WriteData") \cup Where("WriteImages") :
       \E p \in Where("Pipeline") : p < i

\* the pipeline exists, created by the first of two DoCoProcessing calls
\* that got past UpdateProducers
C4_Witness ==
  \E k1, k2 \in DoCoCalls :
    /\ k1 < k2
    /\ Updated(k1) /\ Updated(k2)
    /\ Count(CallEvents(k1), "Pipeline") = 1
    /\ Count(CallEvents(k2), "CreatePipeline") = 0
    /\ heap[coprocessor].PipelineCreated

\* ------------------------------------------------------------------- C5
\* C5: every completed creation of the pipeline (from entering
\* CreatePipeline to instantiating Pipeline) has registered exactly one view
\* and exactly one writer with the coprocessor: the view created by
\* CreateView with filename 'image_%t.png' and frequency 1, the writer with
\* filename 'filename_%t.pvtu' and frequency 1; the view is registered
\* before the one producer is created, the writer after it, and the
\* registered writer is the one constructed with that producer as Input.
\* the trace positions of one creation that ended at position p
Creation(p) ==
  LET q == CHOOSE i \in Where("CreatePipeline") :
             /\ i < p
             /\ \A j \in Where("CreatePipeline") : j < p => j <= i
  IN q..p

The(ps, op) == CHOOSE i \in ps : log[i].op = op

C5_Registrations ==
  \A p \in Where("Pipeline") :
    LET ps == Creation(p)
        n(op) == Cardinality({i \in ps : log[i].op = op})
    IN /\ n("RegisterView") = 1
       /\ n("RegisterWriter") = 1
       /\ n("CreateProducer") = 1
       /\ n("CreateView") = 1
       /\ n("XMLPUnstructuredGridWriter") = 1
       /\ LET rv == log[The(ps, "RegisterView")]
              rw == log[The(ps, "RegisterWriter")]
              cv == log[The(ps, "CreateView")]
              cp == log[The(ps, "CreateProducer")]
              wr == log[The(ps, "XMLPUnstructuredGridWriter")]
          IN /\ rv.self = coprocessor /\ rw.self = coprocessor
             /\ cp.self = coprocessor
             /\ rv.args[1] = cv.ret
             /\ rv.args[2] = "image_%t.png"
             /\ rv.args[3] = 1
             /\ rw.args[1] = wr.ret
             /\ rw.args[2] = "filename_%t.pvtu"
             /\ rw.args[3] = 1
             /\ wr.args[1] = cp.ret
             /\ cp.ret # 0 /\ wr.ret # 0 /\ cv.ret # 0
             /\ The(ps, "RegisterView") < The(ps, "CreateProducer")
             /\ The(ps, "CreateProducer") < The(ps, "RegisterWriter")
             /\ << rv.args[1], rv.args[2], rv.args[3] >>
                  \in {heap[coprocessor].Views[i] :
                         i \in 1..Len(heap[coprocessor].Views)}
             /\ << rw.args[1], rw.args[2], rw.args[3] >>
                  \in {heap[coprocessor].Writers[i] :
                         i \in 1..Len(heap[coprocessor].Writers)}

\* a pipeline has been created and the coprocessor holds its view and writer
C5_Witness ==
  /\ Where("Pipeline") # {}
  /\ Len(heap[coprocessor].Views) = 1
  /\ Len(heap[coprocessor].Writers) = 1

\* ------------------------------------------------------------------- C6
\* C6: neither callback handles a failure: when a host call made during a
\* callback raises, that call is the last one the callback makes (for
\* DoCoProcessing: none of the later steps runs) and the callback ends with
\* that very failure; a callback that ends without failure has seen no
\* call raise.
C6_Propagation ==
  \A k \in 1..Len(calls) :
    LET evs == CallEvents(k)
        raised == {i \in 1..Len(evs) : evs[i].raised}
    IN /\ \A i \in raised :
            /\ i = Len(evs)
            /\ calls[k].exc = evs[i].op
       /\ calls[k].exc # "none" => raised # {}
       /\ (k \in DoCoCalls /\ calls[k].exc \in CoOps) =>
            LET top == TopEvents(k)
            IN /\ top[Len(top)].op = calls[k].exc
               /\ IsPrefix(OpsOf(top), FourOps)

\* WriteData raised in a DoCoProcessing call after UpdateProducers returned,
\* and a RequestDataDescription call ended with a failure too
C6_Witness ==
  /\ \E k \in DoCoCalls : calls[k].exc = "WriteData"
  /\ \E k \in RequestCalls : calls[k].exc # "none"

\* ------------------------------------------------------------------- C7
\* C7: the module load makes its calls in the order CoProcessor(),
\* SetUpdateFrequencies({'input': [1, 1]}), EnableLiveVisualization(True, 1),
\* all on the one new object; no callback runs before the load is complete;
\* and whenever a callback can run or has run, the global coprocessor has
\* its update frequencies set and live visualization enabled.
C7_LoadOrder ==
  /\ Len(log) >= 1 => (log[1].op = "CoProcessor" /\ log[1].call = 0)
  /\ Len(log) >= 2 =>
       /\ log[2].op = "SetUpdateFrequencies"
       /\ log[2].call = 0
       /\ log[2].self = log[1].ret
       /\ log[2].args = << << << "input", << 1, 1 >> >> >> >>
  /\ Len(log) >= 3 =>
       /\ log[3].op = "EnableLiveVisualization"
       /\ log[3].call = 0
       /\ log[3].self = log[1].ret
       /\ log[3].args = << TRUE, 1 >>
  /\ \A i \in 1..Len(log) : i > 3 => log[i].call > 0
  /\ calls # << >> => pc = "loaded"
  /\ pc = "loaded" =>
       /\ coprocessor = log[1].ret
       /\ heap[coprocessor].Frequencies = << << "input", << 1, 1 >> >> >>
       /\ heap[coprocessor].Live = << TRUE, 1 >>
       /\ ~log[3].raised

\* DoCoProcessing has run, after the three load calls
C7_Witness ==
  /\ DoCoCalls # {}
  /\ Len(log) > 3
  /\ log[4].op = "UpdateProducers"

\* ------------------------------------------------------------------- C8
\* C8: once the module is loaded the global names the one CoProcessor
\* constructed at load, no callback constructs another, every coprocessor
\* call of every callback goes to that object, and the pipeline the object
\* holds is the one pipeline created in the run.
C8_OneCoProcessor ==
  /\ Cardinality(Where("CoProcessor")) <= 1
  /\ \A i \in Where("CoProcessor") : log[i].call = 0
  /\ Len(heap) <= 1
  /\ pc = "loaded" =>
       /\ coprocessor = log[1].ret
       /\ \A i \in 1..Len(log) :
            (log[i].call > 0 /\ log[i].self # 0) => log[i].self = log[1].ret
       /\ \A p \in Where("Pipeline") :
            heap[coprocessor].Pipeline = log[p].ret
       /\ Where("Pipeline") = {} => heap[coprocessor].Pipeline = 0

\* both callbacks have used the coprocessor, in two timesteps, and the
\* pipeline exists
C8_Witness ==
  /\ \E k \in RequestCalls :
       Count(CallEvents(k), "LoadRequestedData") = 1
  /\ \E k \in DoCoCalls : calls[k].exc = "none"
  /\ heap[coprocessor].Pipeline # 0
  /\ calls[1].t # calls[Len(calls)].t
====
